---- MODULE Spec2Model ----
(***************************************************************************)
(* Model of src/src/task3_compare_engagement_levels.py: a Spark batch job  *)
(* that loads an employee CSV, maps EngagementLevel to a number, averages  *)
(* it per JobTitle, orders the averages descending and writes them out.    *)
(*                                                                         *)
(* A nullable SQL value is a tuple: Null == <<>> is SQL NULL and <<v>> is   *)
(* the present value v.  An average (a double) is the reduced fraction     *)
(* <<n, d>> of the exact quotient sum/count: the sums are small integers,   *)
(* so the IEEE division sum/count is a function of that quotient and two   *)
(* averages are equal or ordered as doubles exactly as the fractions are.  *)
(***************************************************************************)
EXTENDS Integers, Sequences, FiniteSets, TLC

VARIABLES
    pc,          \* position in main (or in the direct call under test)
    session,     \* the SparkSession: "none", "active" or "stopped"
    steps,       \* history: the statements of main executed by the current run
    input,       \* content at input_file: Null (no file) or <<lines>>
    fs,          \* file system: absolute path -> node, for the existing nodes
    out_path,    \* the output_path argument of write_output
    df,          \* the DataFrame returned by load_data
    numeric_df,  \* the DataFrame returned by convert_engagement_to_numeric
    result_df,   \* the lazy result DataFrame: the row sequences it may yield
    shown,       \* the rows result_df yielded when last shown or collected
    written,     \* the rows result_df yielded to the write of the current run
    stdout,      \* lines printed by the current run
    runs,        \* number of finished runs of main
    fs_start,    \* history: fs when the current run (or call) started
    out_after    \* history: per finished run, the content under the output
                 \* path when it ended and the rows it wrote

vars == <<pc, session, steps, input, fs, out_path, df, numeric_df, result_df,
          shown, written, stdout, runs, fs_start, out_after>>

-----------------------------------------------------------------------------
(* Bounds *)

\* largest DataFrame handed directly to the transformer / aggregator
MaxRows == 3
\* largest number of data lines of the input file of a run of main
MaxFileRows == 2
\* number of consecutive runs of main
MaxRuns == 2

-----------------------------------------------------------------------------
(* Values *)

Null == <<>>
Some(v) == <<v>>

Min(a, b) == IF a <= b THEN a ELSE b

JobTitleStrings == {"SWE", "PM"}
EngagementStrings == {"Low", "Medium", "High", "low", "Unknown"}

JobTitles == {Some(t) : t \in JobTitleStrings} \cup {Null}
EngagementLevels == {Some(l) : l \in EngagementStrings} \cup {Null}

\* The schema of load_data; the columns the pipeline never reads carry one
\* fixed value, EmployeeID is the line number.
Row(i, t, l) ==
    [EmployeeID |-> Some(i), Department |-> Some("Eng"), JobTitle |-> t,
     SatisfactionRating |-> Some(5), EngagementLevel |-> l,
     ReportsConcerns |-> Some(FALSE), ProvidedSuggestions |-> Some(TRUE)]

\* The table of k rows whose JobTitle and EngagementLevel columns are c
Table(k, c) == [i \in 1..k |-> Row(i, c[i][1], c[i][2])]

Cells == JobTitles \X EngagementLevels

\* the cells of the input files of the runs of main: two job titles; a
\* lowest, a highest, an unrecognized and a null level
FileCells == {Some("SWE"), Some("PM")} \X {Some("Low"), Some("High"), Some("Unknown"), Null}

-----------------------------------------------------------------------------
(* Transformer: convert_engagement_to_numeric *)

\* col("EngagementLevel") == lit under SQL three-valued logic
SqlEq(v, lit) == IF v = Null THEN "null" ELSE IF v[1] = lit THEN "true" ELSE "false"

\* (variant: the catch-all yields 0)
EngagementLevelNumericDefaultZero(l) ==
    IF SqlEq(l, "Low") = "true" THEN Some(1)
    ELSE IF SqlEq(l, "Medium") = "true" THEN Some(2)
    ELSE IF SqlEq(l, "High") = "true" THEN Some(3)
    ELSE Some(0)

\* when(..., 1).when(..., 2).when(..., 3).otherwise(None): the first branch
\* whose condition is true; a null condition does not select its branch
EngagementLevelNumeric(l) ==
    IF SqlEq(l, "Low") = "true" THEN Some(1)
    ELSE IF SqlEq(l, "Medium") = "true" THEN Some(2)
    ELSE IF SqlEq(l, "High") = "true" THEN Some(3)
    ELSE Null

DerivedRow(r) ==
    [EmployeeID |-> r.EmployeeID, Department |-> r.Department,
     JobTitle |-> r.JobTitle, SatisfactionRating |-> r.SatisfactionRating,
     EngagementLevel |-> r.EngagementLevel,
     ReportsConcerns |-> r.ReportsConcerns,
     ProvidedSuggestions |-> r.ProvidedSuggestions,
     EngagementLevelNumeric |-> EngagementLevelNumeric(r.EngagementLevel)]

convert_engagement_to_numeric(d) == [i \in 1..Len(d) |-> DerivedRow(d[i])]

-----------------------------------------------------------------------------
(* Aggregator: compare_engagement_levels *)

RECURSIVE Gcd(_, _)
Gcd(a, b) == IF b = 0 THEN a ELSE Gcd(b, a % b)

\* the double s/c, as the reduced fraction
Quotient(s, c) == <<s \div Gcd(s, c), c \div Gcd(s, c)>>

\* indices of the rows of partition t (groupBy treats NULL as a key)
Partition(d, t) == {i \in 1..Len(d) : d[i].JobTitle = t}

RECURSIVE SumOver(_, _)
SumOver(d, I) ==
    IF I = {} THEN 0
    ELSE LET i == CHOOSE j \in I : TRUE
         IN  d[i].EngagementLevelNumeric[1] + SumOver(d, I \ {i})

\* (variant: NULL inputs count in the denominator)
AvgCountsNulls(d, I) ==
    LET P == {i \in I : d[i].EngagementLevelNumeric # Null}
    IN  IF P = {} THEN Null ELSE Quotient(SumOver(d, P), Cardinality(I))

\* (variant: the average of no value is 0)
AvgZeroForNoValue(d, I) ==
    LET P == {i \in I : d[i].EngagementLevelNumeric # Null}
    IN  IF P = {} THEN <<0, 1>> ELSE Quotient(SumOver(d, P), Cardinality(P))

\* avg("EngagementLevelNumeric") over the rows I: NULL inputs are skipped,
\* and the average of no value is NULL
Avg(d, I) ==
    LET P == {i \in I : d[i].EngagementLevelNumeric # Null}
    IN  IF P = {} THEN Null ELSE Quotient(SumOver(d, P), Cardinality(P))

ResultRow(t, a) == [JobTitle |-> t, AvgEngagementLevel |-> a]

\* (variant: keys without a numeric value are dropped)
GroupByDropsNullGroups(d) ==
    {ResultRow(t, Avg(d, Partition(d, t))) :
        t \in {d[i].JobTitle : i \in {j \in 1..Len(d) : d[j].EngagementLevelNumeric # Null}}}

\* df.groupBy("JobTitle").agg(avg(...).alias("AvgEngagementLevel")): one row
\* per key, in no particular order
GroupByAvg(d) ==
    {ResultRow(t, Avg(d, Partition(d, t))) : t \in {d[i].JobTitle : i \in 1..Len(d)}}

\* a < b as doubles
FracLess(a, b) == a[1] * b[2] < b[1] * a[2]

\* col("AvgEngagementLevel").desc(): descending, NULLS LAST.  x sorts
\* strictly before y.
DescBefore(x, y) == x # Null /\ (y = Null \/ FracLess(y, x))

Orderings(S) ==
    {s \in [1..Cardinality(S) -> S] : \A i, j \in 1..Cardinality(S) : i # j => s[i] # s[j]}

\* (variant: ascending)
OrderByAsc(S) ==
    {s \in Orderings(S) :
        \A i, j \in 1..Len(s) :
            i < j => ~DescBefore(s[i].AvgEngagementLevel, s[j].AvgEngagementLevel)}

\* (variant: no ordering at all)
OrderByUnsorted(S) == Orderings(S)

\* orderBy(...): every arrangement the sort key allows; the order of rows
\* with equal keys is not determined by the query
OrderByDesc(S) ==
    {s \in Orderings(S) :
        \A i, j \in 1..Len(s) :
            i < j => ~DescBefore(s[j].AvgEngagementLevel, s[i].AvgEngagementLevel)}

compare_engagement_levels(d) == OrderByDesc(GroupByAvg(convert_engagement_to_numeric(d)))

-----------------------------------------------------------------------------
(* Paths and the file system *)

\* A path is [abs, parts]: "/a/b" is [abs |-> TRUE, parts |-> <<"a", "b">>],
\* "b.csv" is [abs |-> FALSE, parts |-> <<"b.csv">>], "" has no parts.
Repo == <<"workspaces", "spark-structured-api-employee-engagement-analysis-bhanukocherla">>

input_file == [abs |-> TRUE, parts |-> Repo \o <<"input", "employee_data.csv">>]

output_file ==
    [abs |-> TRUE, parts |-> Repo \o <<"outputs", "task3", "engagement_comparison.csv">>]

\* the working directory of the process, against which relative paths resolve
Cwd == Repo

Front(q) == SubSeq(q, 1, Len(q) - 1)

PathText(p) ==
    LET Join[k \in 0..Len(p.parts)] ==
            IF k = 0 THEN ""
            ELSE Join[k - 1] \o (IF k > 1 \/ p.abs THEN "/" ELSE "") \o p.parts[k]
    IN  IF p.abs /\ p.parts = <<>> THEN "/" ELSE Join[Len(p.parts)]

\* os.path.dirname
dirname(p) == [abs |-> p.abs, parts |-> IF p.parts = <<>> THEN <<>> ELSE Front(p.parts)]

IsEmptyPath(p) == ~p.abs /\ p.parts = <<>>

Resolve(p) == IF p.abs THEN p.parts ELSE Cwd \o p.parts

Prefixes(q) == {SubSeq(q, 1, k) : k \in 0..Len(q)}

IsPrefix(q, r) == Len(q) <= Len(r) /\ SubSeq(r, 1, Len(q)) = q

DirNode == [kind |-> "dir", lines |-> <<>>]
FileNode(ls) == [kind |-> "file", lines |-> ls]

\* os.path.exists: "" never exists
exists(f, p) == ~IsEmptyPath(p) /\ Resolve(p) \in DOMAIN f

\* some proper ancestor of q, or q itself, is a regular file
BlockedByFile(f, q) == \E a \in Prefixes(q) : a \in DOMAIN f /\ f[a].kind = "file"

\* os.makedirs(p): creates p and its missing ancestors; raises on "" and
\* when p exists or a component is not a directory
makedirs(f, p) ==
    IF IsEmptyPath(p) \/ Resolve(p) \in DOMAIN f \/ BlockedByFile(f, Resolve(p))
    THEN [raised |-> TRUE, fs |-> f]
    ELSE [raised |-> FALSE,
          fs |-> [q \in DOMAIN f \cup Prefixes(Resolve(p)) |->
                     IF q \in DOMAIN f THEN f[q] ELSE DirNode]]

-----------------------------------------------------------------------------
(* CSV text of the result *)

HeaderLine == "JobTitle,AvgEngagementLevel"

\* Double.toString of the double n/d, for the quotients of sums of 1..3
\* over at most 5 values (denominators 1..5)
FormatDouble(a) ==
    LET n == a[1]
        d == a[2]
        q == n \div d
        r == n % d
    IN  IF d = 3
        THEN CASE n = 4 -> "1.3333333333333333"
               [] n = 5 -> "1.6666666666666667"
               [] n = 7 -> "2.3333333333333335"
               [] n = 8 -> "2.6666666666666665"
        ELSE LET c == (r * 100) \div d
             IN  ToString(q) \o "." \o
                 (IF c % 10 = 0 THEN ToString(c \div 10) ELSE ToString(c))

\* a NULL field is written as the empty field
CsvLine(r) ==
    (IF r.JobTitle = Null THEN "" ELSE r.JobTitle[1]) \o "," \o
    (IF r.AvgEngagementLevel = Null THEN "" ELSE FormatDouble(r.AvgEngagementLevel))

\* header=True
CsvLines(s) == <<HeaderLine>> \o [i \in 1..Len(s) |-> CsvLine(s[i])]

-----------------------------------------------------------------------------
(* Writer: write_output *)

\* The one data file coalesce(1) yields is named after the id (a random
\* uuid) of the write job; the job's commit marker is _SUCCESS.
PartName(id) == "part-00000-" \o id \o "-c000.csv"
SuccessName == "_SUCCESS"

\* The local file system keeps, next to each file it writes, a hidden file
\* with the checksums of its content.
CrcName(n) == "." \o n \o ".crc"
CrcNode(ls) == FileNode(<<"crc">> \o ls)

\* The ids a write job may draw: any id no job has used before.  The ids of
\* earlier jobs are those in the names of the files they left.
JobIds == {"uuid" \o ToString(i) : i \in 1..MaxRuns}

Names(c) == {r[Len(r)] : r \in {x \in DOMAIN c : x # <<>>}}

FreshJobIds ==
    {id \in JobIds :
        /\ PartName(id) \notin Names(fs)
        /\ \A i \in 1..Len(out_after) : PartName(id) \notin Names(out_after[i].content)}

Under(f, q) == {r \in DOMAIN f : IsPrefix(q, r)}

\* DataFrameWriter.csv(path, header=True, mode=...) of the rows s at the
\* resolved path q.  mode="overwrite": whatever is at q is deleted, with
\* everything under it, before the job writes; the job creates q and its
\* missing ancestors.  The job fails, changing nothing, when a component of
\* the parent of q is a regular file.  id is the id of the job.
SparkWriteCsv(f, q, s, id) ==
    IF q = <<>> \/ BlockedByFile(f, Front(q))
    THEN [raised |-> TRUE, fs |-> f]
    ELSE LET kept == DOMAIN f \ Under(f, q)
             part == q \o <<PartName(id)>>
             success == q \o <<SuccessName>>
             partCrc == q \o <<CrcName(PartName(id))>>
             successCrc == q \o <<CrcName(SuccessName)>>
             new == Prefixes(q) \cup {part, success, partCrc, successCrc}
         IN  [raised |-> FALSE,
              fs |-> [r \in kept \cup new |->
                         IF r = part THEN FileNode(CsvLines(s))
                         ELSE IF r = success THEN FileNode(<<>>)
                         ELSE IF r = partCrc THEN CrcNode(CsvLines(s))
                         ELSE IF r = successCrc THEN CrcNode(<<>>)
                         ELSE IF r \in kept THEN f[r]
                         ELSE DirNode]]

\* write_output(result_df, output_path), the evaluation of result_df having
\* produced the rows s and the write job having the id `id`
write_output(f, s, p, id) ==
    LET output_dir == dirname(p)
        made == IF ~exists(f, output_dir) THEN makedirs(f, output_dir)
                ELSE [raised |-> FALSE, fs |-> f]
    IN  IF made.raised THEN [raised |-> TRUE, fs |-> f]
        ELSE SparkWriteCsv(made.fs, Resolve(p), s, id)

\* what is at and under the path p
OutputContent(f, p) == [r \in Under(f, Resolve(p)) |-> f[r]]

-----------------------------------------------------------------------------
(* Loader: load_data *)

NotFoundMessage(p) == "File not found: " \o PathText(p) \o ". Please check the file path."

\* (variant: no existence check, a missing file reads as no rows)
load_dataNoCheck(inp, p) ==
    [raised |-> FALSE, message |-> "", df |-> IF inp = Null THEN <<>> ELSE inp[1].rows]

\* inp is what is at file_path: Null when os.path.exists is false, else the
\* file, whose header line spark.read.csv(header=True) drops
load_data(inp, p) ==
    IF inp = Null
    THEN [raised |-> TRUE, message |-> NotFoundMessage(p), df |-> <<>>]
    ELSE [raised |-> FALSE, message |-> "", df |-> inp[1].rows]

SchemaHeader ==
    "EmployeeID,Department,JobTitle,SatisfactionRating,EngagementLevel,ReportsConcerns,ProvidedSuggestions"

InputFile(t) == Some([header |-> SchemaHeader, rows |-> t])

-----------------------------------------------------------------------------
(* Driver: main *)

LabelLine == "Engagement Level Comparison Across Job Titles:"
ConfirmationLine(p) == "Results saved to " \o PathText(p)

\* DataFrame.show() prints the first 20 rows
ShowRows == 20

\* a null cell is printed as NULL by Spark 3.5 and later, as null before;
\* the repository pins no version
NullTexts == {"NULL", "null"}

Max(a, b) == IF a >= b THEN a ELSE b

RECURSIVE Repeat(_, _)
Repeat(ch, n) == IF n <= 0 THEN "" ELSE ch \o Repeat(ch, n - 1)

\* cells are right-aligned in their column
PadLeft(x, w) == Repeat(" ", w - Len(x)) \o x

\* the cells of the row r (none of the values here exceeds the 20
\* characters beyond which show() truncates a cell)
ShowCells(r, nt) ==
    <<IF r.JobTitle = Null THEN nt ELSE r.JobTitle[1],
      IF r.AvgEngagementLevel = Null THEN nt ELSE FormatDouble(r.AvgEngagementLevel)>>

\* the width of column j: that of its widest cell or of its name, at least 3
ColumnWidth(s, nt, j, name) ==
    LET W[i \in 0..Min(Len(s), ShowRows)] ==
            IF i = 0 THEN Max(3, Len(name)) ELSE Max(W[i - 1], Len(ShowCells(s[i], nt)[j]))
    IN  W[Min(Len(s), ShowRows)]

ShowLine(a, b, w1, w2) == "|" \o PadLeft(a, w1) \o "|" \o PadLeft(b, w2) \o "|"

ShowBorder(w1, w2) == "+" \o Repeat("-", w1) \o "+" \o Repeat("-", w2) \o "+"

\* the lines print() and show() put out for the rows s: the table of the
\* first 20 rows between borders, a note when rows were left out, and the
\* empty line that ends the table
Preview(s, nt) ==
    LET w1 == ColumnWidth(s, nt, 1, "JobTitle")
        w2 == ColumnWidth(s, nt, 2, "AvgEngagementLevel")
    IN  <<ShowBorder(w1, w2), ShowLine("JobTitle", "AvgEngagementLevel", w1, w2),
          ShowBorder(w1, w2)>>
        \o [i \in 1..Min(Len(s), ShowRows) |->
               ShowLine(ShowCells(s[i], nt)[1], ShowCells(s[i], nt)[2], w1, w2)]
        \o <<ShowBorder(w1, w2)>>
        \o (IF Len(s) > ShowRows THEN <<"only showing top 20 rows">> ELSE <<>>)
        \o <<"">>

\* (variant: the confirmation is printed before the write)
main_nextConfirmsEarly(at, raised) ==
    CASE at = "start" -> "load"
      [] at = "load" -> IF raised THEN "except" ELSE "compare"
      [] at = "except" -> "stop_err"
      [] at = "stop_err" -> "done"
      [] at = "compare" -> "label"
      [] at = "label" -> "show"
      [] at = "show" -> "confirm"
      [] at = "confirm" -> "write"
      [] at = "write" -> IF raised THEN "crashed" ELSE "stop"
      [] at = "stop" -> "done"

\* The statement main executes after the one at `at`; raised tells whether
\* that one raised.  Only load_data's FileNotFoundError is caught.
main_next(at, raised) ==
    CASE at = "start" -> "load"
      [] at = "load" -> IF raised THEN "except" ELSE "compare"
      [] at = "except" -> "stop_err"
      [] at = "stop_err" -> "done"
      [] at = "compare" -> "label"
      [] at = "label" -> "show"
      [] at = "show" -> "write"
      [] at = "write" -> IF raised THEN "crashed" ELSE "confirm"
      [] at = "confirm" -> "stop"
      [] at = "stop" -> "done"

Terminated == pc \in {"done", "crashed"}

\* bookkeeping when the statement at pc hands control to `to`
Advance(to, f) ==
    /\ pc' = to
    /\ steps' = Append(steps, pc)
    /\ IF to \in {"done", "crashed"}
       THEN /\ runs' = runs + 1
            /\ out_after' = Append(out_after, [content |-> OutputContent(f, out_path),
                                               rows |-> written])
       ELSE UNCHANGED <<runs, out_after>>

\* spark = initialize_spark()
InitializeSpark ==
    /\ pc = "start"
    /\ session' = "active"
    /\ Advance(main_next(pc, FALSE), fs)
    /\ UNCHANGED <<input, fs, out_path, df, numeric_df, result_df, shown, written, stdout, fs_start>>

\* df = load_data(spark, input_file)
LoadData ==
    /\ pc = "load"
    /\ LET r == load_data(input, input_file)
       IN  /\ df' = r.df
           /\ Advance(main_next(pc, r.raised), fs)
    /\ UNCHANGED <<session, input, fs, out_path, numeric_df, result_df, shown, written, stdout, fs_start>>

\* except FileNotFoundError as e: print(e)
PrintError ==
    /\ pc = "except"
    /\ stdout' = Append(stdout, load_data(input, input_file).message)
    /\ Advance(main_next(pc, FALSE), fs)
    /\ UNCHANGED <<session, input, fs, out_path, df, numeric_df, result_df, shown, written, fs_start>>

\* spark.stop(); return
StopAfterError ==
    /\ pc = "stop_err"
    /\ session' = "stopped"
    /\ Advance(main_next(pc, FALSE), fs)
    /\ UNCHANGED <<input, fs, out_path, df, numeric_df, result_df, shown, written, stdout, fs_start>>

\* result_df = compare_engagement_levels(df)
Compare ==
    /\ pc = "compare"
    /\ result_df' = compare_engagement_levels(df)
    /\ Advance(main_next(pc, FALSE), fs)
    /\ UNCHANGED <<session, input, fs, out_path, df, numeric_df, shown, written, stdout, fs_start>>

\* print("Engagement Level Comparison Across Job Titles:")
PrintLabel ==
    /\ pc = "label"
    /\ stdout' = Append(stdout, LabelLine)
    /\ Advance(main_next(pc, FALSE), fs)
    /\ UNCHANGED <<session, input, fs, out_path, df, numeric_df, result_df, shown, written, fs_start>>

\* result_df.show(): one evaluation of the query
Show ==
    /\ pc = "show"
    /\ \E s \in result_df, nt \in NullTexts :
          /\ shown' = s
          /\ stdout' = stdout \o Preview(s, nt)
    /\ Advance(main_next(pc, FALSE), fs)
    /\ UNCHANGED <<session, input, fs, out_path, df, numeric_df, result_df, written, fs_start>>

\* write_output(result_df, output_file): another evaluation of the query
WriteOutput ==
    /\ pc = "write"
    /\ \E s \in result_df, id \in FreshJobIds :
          LET r == write_output(fs, s, out_path, id)
          IN  /\ fs' = r.fs
              /\ written' = IF r.raised THEN <<>> ELSE s
              /\ Advance(main_next(pc, r.raised), r.fs)
    /\ UNCHANGED <<session, input, out_path, df, numeric_df, result_df, shown, stdout, fs_start>>

\* print(f"Results saved to {output_file}")
PrintConfirmation ==
    /\ pc = "confirm"
    /\ stdout' = Append(stdout, ConfirmationLine(out_path))
    /\ Advance(main_next(pc, FALSE), fs)
    /\ UNCHANGED <<session, input, fs, out_path, df, numeric_df, result_df, shown, written, fs_start>>

\* spark.stop()
StopSession ==
    /\ pc = "stop"
    /\ session' = "stopped"
    /\ Advance(main_next(pc, FALSE), fs)
    /\ UNCHANGED <<input, fs, out_path, df, numeric_df, result_df, shown, written, stdout, fs_start>>

\* the program is started again, on the same input and output paths
Rerun ==
    /\ Terminated
    /\ runs < MaxRuns
    /\ pc' = "start"
    /\ session' = "none"
    /\ steps' = <<>>
    /\ df' = <<>>
    /\ result_df' = {}
    /\ shown' = <<>>
    /\ written' = <<>>
    /\ stdout' = <<>>
    /\ fs_start' = fs
    /\ UNCHANGED <<input, fs, out_path, numeric_df, runs, out_after>>

-----------------------------------------------------------------------------
(* File systems a run may start from *)

FsOf(D, Fl) ==
    [q \in D \cup {x[1] : x \in Fl} |->
        IF q \in D THEN DirNode ELSE FileNode((CHOOSE x \in Fl : x[1] = q)[2])]

StaleName == PartName("uuid0")
StaleLines == <<HeaderLine, "QA,3.0">>

\* no output directory; the parent directory only; an earlier output of the
\* job at p; a regular file at p
WritableFs(p) ==
    LET q == Resolve(p)
        par == Front(q)
        base == Prefixes(Cwd)
    IN  {FsOf(base, {}),
         FsOf(base \cup Prefixes(par), {}),
         FsOf(base \cup Prefixes(q),
              {<<q \o <<StaleName>>, StaleLines>>,
               <<q \o <<SuccessName>>, <<>> >>,
               <<q \o <<CrcName(StaleName)>>, CrcNode(StaleLines).lines>>,
               <<q \o <<CrcName(SuccessName)>>, CrcNode(<<>>).lines>>}),
         FsOf(base \cup Prefixes(par), {<<q, StaleLines>>})}

\* the same, and a regular file where the parent of p, or the parent of
\* that, should be a directory
PriorFs(p) ==
    LET q == Resolve(p)
        par == Front(q)
        base == Prefixes(Cwd)
    IN  WritableFs(p)
        \cup (IF par \notin base
              THEN {FsOf(base \cup Prefixes(Front(par)), {<<par, <<>> >>})}
              ELSE {})
        \cup (IF par \notin base /\ Front(par) \notin base
              THEN {FsOf(base \cup Prefixes(Front(Front(par))), {<<Front(par), <<>> >>})}
              ELSE {})

-----------------------------------------------------------------------------
(* Spec: runs of main *)

Init ==
    /\ pc = "start"
    /\ session = "none"
    /\ steps = <<>>
    /\ \/ input = Null
       \/ \E k \in 0..MaxFileRows : \E c \in [1..k -> FileCells] : input = InputFile(Table(k, c))
    /\ out_path = output_file
    /\ fs \in PriorFs(output_file)
    /\ df = <<>>
    /\ numeric_df = <<>>
    /\ result_df = {}
    /\ shown = <<>>
    /\ written = <<>>
    /\ stdout = <<>>
    /\ runs = 0
    /\ fs_start = fs
    /\ out_after = <<>>

Next ==
    \/ InitializeSpark
    \/ LoadData
    \/ PrintError
    \/ StopAfterError
    \/ Compare
    \/ PrintLabel
    \/ Show
    \/ WriteOutput
    \/ PrintConfirmation
    \/ StopSession
    \/ Rerun

Spec == Init /\ [][Next]_vars

-----------------------------------------------------------------------------
(* SpecAgg: the transformer and the aggregator called on any table *)

IdleMain ==
    /\ session = "none"
    /\ steps = <<>>
    /\ input = Null
    /\ written = <<>>
    /\ stdout = <<>>
    /\ runs = 0
    /\ out_after = <<>>

InitAgg ==
    /\ pc = "call"
    /\ \E k \in 0..MaxRows : \E c \in [1..k -> Cells] : df = Table(k, c)
    /\ numeric_df = <<>>
    /\ result_df = {}
    /\ shown = <<>>
    /\ out_path = output_file
    /\ fs = FsOf(Prefixes(Cwd), {})
    /\ fs_start = fs
    /\ IdleMain

\* convert_engagement_to_numeric(df)
ConvertCall ==
    /\ pc = "call"
    /\ numeric_df' = convert_engagement_to_numeric(df)
    /\ pc' = "converted"
    /\ UNCHANGED <<session, steps, input, fs, out_path, df, result_df, shown, written,
                   stdout, runs, fs_start, out_after>>

\* compare_engagement_levels(df)
CompareCall ==
    /\ pc = "converted"
    /\ result_df' = compare_engagement_levels(df)
    /\ pc' = "compared"
    /\ UNCHANGED <<session, steps, input, fs, out_path, df, numeric_df, shown, written,
                   stdout, runs, fs_start, out_after>>

\* the rows of the returned DataFrame are collected
CollectCall ==
    /\ pc = "compared"
    /\ \E s \in result_df : shown' = s
    /\ pc' = "collected"
    /\ UNCHANGED <<session, steps, input, fs, out_path, df, numeric_df, result_df, written,
                   stdout, runs, fs_start, out_after>>

NextAgg == ConvertCall \/ CompareCall \/ CollectCall

SpecAgg == InitAgg /\ [][NextAgg]_vars

-----------------------------------------------------------------------------
(* SpecWrite: write_output called on any result and path *)

WritePaths ==
    {output_file,
     [abs |-> FALSE, parts |-> <<"outputs", "task3", "engagement_comparison.csv">>],
     [abs |-> TRUE, parts |-> <<"engagement_comparison.csv">>],
     [abs |-> FALSE, parts |-> <<"engagement_comparison.csv">>]}

InitWrite ==
    /\ pc = "call"
    /\ out_path \in WritePaths
    /\ fs \in WritableFs(out_path)
    /\ fs_start = fs
    /\ \E k \in 0..MaxFileRows : \E c \in [1..k -> FileCells] : df = Table(k, c)
    /\ result_df = compare_engagement_levels(df)
    /\ numeric_df = <<>>
    /\ shown = <<>>
    /\ IdleMain

\* write_output(result_df, out_path)
WriteCall ==
    /\ pc = "call"
    /\ \E s \in result_df, id \in FreshJobIds :
          LET r == write_output(fs, s, out_path, id)
          IN  /\ fs' = r.fs
              /\ written' = IF r.raised THEN <<>> ELSE s
              /\ pc' = IF r.raised THEN "raised" ELSE "returned"
    /\ UNCHANGED <<session, steps, input, out_path, df, numeric_df, result_df, shown,
                   stdout, runs, fs_start, out_after>>

NextWrite == WriteCall

SpecWrite == InitWrite /\ [][NextWrite]_vars

-----------------------------------------------------------------------------
(* Properties of the transformer and the aggregator (SpecAgg) *)

Recognized(l) == l \in {Some("Low"), Some("Medium"), Some("High")}

Mapped(l) == CASE l = Some("Low") -> 1 [] l = Some("Medium") -> 2 [] l = Some("High") -> 3

InputTitles(d) == {d[i].JobTitle : i \in 1..Len(d)}

RecognizedRows(d, t) ==
    {i \in 1..Len(d) : d[i].JobTitle = t /\ Recognized(d[i].EngagementLevel)}

RECURSIVE MappedSum(_, _)
MappedSum(d, I) ==
    IF I = {} THEN 0
    ELSE LET i == CHOOSE j \in I : TRUE
         IN  Mapped(d[i].EngagementLevel) + MappedSum(d, I \ {i})

RowsOf(s, t) == {k \in 1..Len(s) : s[k].JobTitle = t}

\* C1: every result row's AvgEngagementLevel is the arithmetic mean of
\* Low->1, Medium->2, High->3 over exactly the input rows of its JobTitle
\* with a recognized EngagementLevel (a * count = sum); the other rows add
\* nothing to the sum or the count, and with no recognized row there is no
\* mean and the average is absent.
C1_MeanOfRecognized ==
    pc = "collected" =>
        \A k \in 1..Len(shown) :
            LET R == RecognizedRows(df, shown[k].JobTitle)
                a == shown[k].AvgEngagementLevel
            IN  IF R = {} THEN a = Null
                ELSE a # Null /\ a[1] * Cardinality(R) = MappedSum(df, R) * a[2]

\* a partition of Low, Medium and an unrecognized level averages 1.5
C1_Witness ==
    /\ pc = "collected"
    /\ \E k \in 1..Len(shown) :
          /\ shown[k].AvgEngagementLevel = <<3, 2>>
          /\ \E i \in 1..Len(df) :
                df[i].JobTitle = shown[k].JobTitle /\ ~Recognized(df[i].EngagementLevel)

\* C2 as stated: the result has as many rows as there are JobTitles with a
\* recognized row; a JobTitle without one has no result row, every other
\* JobTitle exactly one.
C2_Original ==
    pc = "collected" =>
        /\ Len(shown) = Cardinality({t \in InputTitles(df) : RecognizedRows(df, t) # {}})
        /\ \A t \in InputTitles(df) :
              Cardinality(RowsOf(shown, t)) = IF RecognizedRows(df, t) = {} THEN 0 ELSE 1

\* C2 amended: the result has as many rows as the input has distinct
\* JobTitles; a JobTitle whose rows all have an unrecognized or null
\* EngagementLevel has exactly one row too, with the absent average.
C2_CountsEveryTitle ==
    pc = "collected" =>
        /\ Len(shown) = Cardinality(InputTitles(df))
        /\ \A t \in InputTitles(df) :
              /\ Cardinality(RowsOf(shown, t)) = 1
              /\ RecognizedRows(df, t) = {} =>
                    \E k \in 1..Len(shown) : shown[k] = ResultRow(t, Null)

\* one JobTitle has a recognized row and another has none
C2_Witness ==
    /\ pc = "collected"
    /\ \E t, u \in InputTitles(df) :
          RecognizedRows(df, t) = {} /\ RecognizedRows(df, u) # {}

\* C3: no two result rows share a JobTitle, the JobTitles of the result are
\* exactly those of the input, and a partition without a recognized row has
\* the absent average, not 0.
C3_OneRowPerPartition ==
    pc = "collected" =>
        /\ \A j, k \in 1..Len(shown) : j # k => shown[j].JobTitle # shown[k].JobTitle
        /\ {shown[k].JobTitle : k \in 1..Len(shown)} = InputTitles(df)
        /\ \A k \in 1..Len(shown) :
              RecognizedRows(df, shown[k].JobTitle) = {} =>
                  /\ shown[k].AvgEngagementLevel = Null
                  /\ shown[k].AvgEngagementLevel # <<0, 1>>

\* a partition of two rows, neither recognized, next to another partition
C3_Witness ==
    /\ pc = "collected"
    /\ Len(shown) >= 2
    /\ \E k \in 1..Len(shown) :
          /\ shown[k].AvgEngagementLevel = Null
          /\ Cardinality(Partition(df, shown[k].JobTitle)) = 2

\* x >= y in the order of the sort key, where the absent value is lowest
AvgGeq(x, y) == y = Null \/ (x # Null /\ x[1] * y[2] >= y[1] * x[2])

\* C4: in every row sequence the result can yield, each row's average is
\* greater than or equal to the next row's, the absent average counting as
\* lower than every number.
C4_NonIncreasing ==
    pc \in {"compared", "collected"} =>
        \A s \in result_df :
            \A k \in 1..(Len(s) - 1) :
                AvgGeq(s[k].AvgEngagementLevel, s[k + 1].AvgEngagementLevel)

\* two equal averages, in both orders, followed by an absent average
C4_Witness ==
    /\ pc = "compared"
    /\ Cardinality(result_df) = 2
    /\ \E s \in result_df :
          /\ Len(s) = 3
          /\ s[1].AvgEngagementLevel = s[2].AvgEngagementLevel
          /\ s[2].AvgEngagementLevel # Null
          /\ s[3].AvgEngagementLevel = Null

SourceColumns ==
    {"EmployeeID", "Department", "JobTitle", "SatisfactionRating", "EngagementLevel",
     "ReportsConcerns", "ProvidedSuggestions"}

\* C5: the converted table has the rows of the input, each with its seven
\* columns unchanged and with EngagementLevelNumeric 1 for "Low", 2 for
\* "Medium", 3 for "High" and absent for anything else, null included.
C5_TotalMapping ==
    pc \in {"converted", "compared", "collected"} =>
        /\ Len(numeric_df) = Len(df)
        /\ \A i \in 1..Len(df) :
              /\ DOMAIN numeric_df[i] = SourceColumns \cup {"EngagementLevelNumeric"}
              /\ \A c \in SourceColumns : numeric_df[i][c] = df[i][c]
              /\ numeric_df[i].EngagementLevelNumeric =
                    IF df[i].EngagementLevel = Some("Low") THEN Some(1)
                    ELSE IF df[i].EngagementLevel = Some("Medium") THEN Some(2)
                    ELSE IF df[i].EngagementLevel = Some("High") THEN Some(3)
                    ELSE Null

\* a table with a null, a wrongly cased and a recognized level
C5_Witness ==
    /\ pc = "converted"
    /\ \E i, j, k \in 1..Len(df) :
          /\ df[i].EngagementLevel = Null
          /\ df[j].EngagementLevel = Some("low")
          /\ df[k].EngagementLevel = Some("High")
          /\ numeric_df[k].EngagementLevelNumeric = Some(3)

-----------------------------------------------------------------------------
(* Properties of the runs of main (Spec) *)

NotFoundText ==
    "File not found: /workspaces/spark-structured-api-employee-engagement-analysis-bhanukocherla/input/employee_data.csv. Please check the file path."

ConfirmationText ==
    "Results saved to /workspaces/spark-structured-api-employee-engagement-analysis-bhanukocherla/outputs/task3/engagement_comparison.csv"

\* C6: with no file at the input path the run prints the FileNotFoundError
\* message, which carries the path, and nothing else; it executes no
\* statement after the handler (no aggregation, preview, write or
\* confirmation), ends with the session stopped, and the file system stays
\* as it was when the run started.
C6_MissingInput ==
    input = Null =>
        /\ pc \in {"start", "load", "except", "stop_err", "done"}
        /\ \A i \in 1..Len(steps) : steps[i] \in {"start", "load", "except", "stop_err"}
        /\ fs = fs_start
        /\ written = <<>>
        /\ result_df = {}
        /\ \A i \in 1..Len(stdout) : stdout[i] = NotFoundText
        /\ pc = "done" => Len(stdout) = 1 /\ session = "stopped"

\* a run without input has ended and an earlier output is still in place
C6_Witness ==
    /\ input = Null
    /\ pc = "done"
    /\ stdout = <<NotFoundText>>
    /\ output_file.parts \o <<StaleName>> \in DOMAIN fs

StopCount == Cardinality({i \in 1..Len(steps) : steps[i] \in {"stop", "stop_err"}})

\* C7: main never ends with the session still acquired, calls spark.stop()
\* exactly once per run and never twice, and every statement between
\* initialize_spark and spark.stop() runs with the session active.
C7_ReleasedOnEveryExit ==
    /\ Terminated => session = "stopped" /\ StopCount = 1
    /\ StopCount <= 1
    /\ pc \in {"load", "except", "stop_err", "compare", "label", "show", "write",
               "confirm", "stop"} => session = "active"

\* the files of the content c that hold data: neither the commit marker
\* nor the checksum file of another file
DataFiles(c) ==
    {r \in DOMAIN c :
        /\ c[r].kind = "file"
        /\ r[Len(r)] # SuccessName
        /\ r[Len(r)] \notin {CrcName(n) : n \in Names(c)}}

\* the line sequences of the data files of c
DataLines(c) == {c[r].lines : r \in DataFiles(c)}

\* C8 as stated: the data at the output path after a run equals, row for
\* row and in the same order, the data after the run before it.
C8_Original ==
    \A i \in 1..(Len(out_after) - 1) :
        DataLines(out_after[i + 1].content) = DataLines(out_after[i].content)

\* the data lines agree as sets and in number
SameLines(la, lb) ==
    /\ Len(la) = Len(lb)
    /\ {la[k] : k \in 1..Len(la)} = {lb[k] : k \in 1..Len(lb)}

\* C8 amended: after a run the output holds the same data lines as after
\* the run before it, and the same AvgEngagementLevel at every row
\* position; only rows with equal averages may have changed places.
C8_SameUpToTies ==
    \A i \in 1..(Len(out_after) - 1) :
        LET a == out_after[i]
            b == out_after[i + 1]
        IN  /\ Cardinality(DataFiles(a.content)) = Cardinality(DataFiles(b.content))
            /\ \A ra \in DataFiles(a.content) :
                  \E rb \in DataFiles(b.content) :
                      /\ SameLines(a.content[ra].lines, b.content[rb].lines)
                      /\ a.content[ra].lines[1] = b.content[rb].lines[1]
            /\ Len(a.rows) = Len(b.rows)
            /\ \A k \in 1..Len(a.rows) :
                  a.rows[k].AvgEngagementLevel = b.rows[k].AvgEngagementLevel
            /\ a.rows # <<>> =>
                  /\ DataLines(a.content) = {CsvLines(a.rows)}
                  /\ DataLines(b.content) = {CsvLines(b.rows)}

\* two runs wrote job titles of equal average in different orders
C8_Witness ==
    /\ Len(out_after) = 2
    /\ Len(out_after[1].rows) = 2
    /\ out_after[1].rows # out_after[2].rows
    /\ DataLines(out_after[1].content) # DataLines(out_after[2].content)

SuccessPath ==
    <<"start", "load", "compare", "label", "show", "write", "confirm", "stop", "done">>

CrashPath == <<"start", "load", "compare", "label", "show", "write", "crashed">>

Printed(line) == \E i \in 1..Len(stdout) : stdout[i] = line

\* C10: the statements of a run with an input file are executed in the order
\* load, aggregation, label, preview, write_output, confirmation, session
\* release; the label is the first line printed and the preview follows it;
\* the confirmation is printed last, only after write_output has returned and
\* left the result at the output path, never in a run whose write raised; the
\* session is released only after the confirmation.
C10_StepOrder ==
    input # Null =>
        LET h == Append(steps, pc)
        IN  /\ \/ h = SubSeq(SuccessPath, 1, Len(h))
               \/ h = CrashPath
            /\ Len(stdout) >= 1 => stdout[1] = LabelLine
            /\ Len(stdout) >= 2 =>
                  \E nt \in NullTexts :
                      SubSeq(stdout, 2, 1 + Len(Preview(shown, nt))) = Preview(shown, nt)
            /\ Printed(ConfirmationText) =>
                  /\ \E nt \in NullTexts :
                        stdout = <<LabelLine>> \o Preview(shown, nt) \o <<ConfirmationText>>
                  /\ written \in result_df
                  /\ DataLines(OutputContent(fs, out_path)) = {CsvLines(written)}
            /\ pc = "crashed" => ~Printed(ConfirmationText)
            /\ session = "stopped" => Printed(ConfirmationText)

\* a run on an input of two job titles has ended normally
C10_Witness ==
    /\ input # Null
    /\ pc = "done"
    /\ Len(written) = 2
    /\ Len(stdout) = 9
    /\ stdout[5] = "|     SWE|               3.0|"
    /\ stdout[9] = ConfirmationText

-----------------------------------------------------------------------------
(* Properties of write_output (SpecWrite) *)

\* C9: whatever the result, the path and the file system before the call,
\* write_output returns, the parent directory of the path exists, and at the
\* path there is exactly one data file, holding the header and the rows of
\* the result, and nothing that was at the path before.
C9_WritesOneFile ==
    pc \in {"returned", "raised"} =>
        LET q == Resolve(out_path)
            c == OutputContent(fs, out_path)
        IN  /\ pc = "returned"
            /\ Front(q) \in DOMAIN fs /\ fs[Front(q)].kind = "dir"
            /\ Cardinality(DataFiles(c)) = 1
            /\ \A r \in DataFiles(c) :
                  /\ Len(c[r].lines) = 1 + Len(written)
                  /\ c[r].lines[1] = HeaderLine
                  /\ \A k \in 1..Len(written) : c[r].lines[k + 1] = CsvLine(written[k])
            /\ written \in result_df
            /\ \A r \in DOMAIN c : c[r].lines # StaleLines
            /\ q \o <<StaleName>> \notin DOMAIN c

====
